---- MODULE Spec2Model ----
(***************************************************************************)
(* seo_audit.py: the bounded, round-based, same-domain crawler (crawl) and *)
(* the cross-page analysis of its result mapping (analyze), as run by main.*)
(*                                                                         *)
(* One coordinating thread runs crawl; the pool's workers run fetch.  The  *)
(* coordinator's position is pc; a worker's position is the state of its   *)
(* future.                                                                 *)
(***************************************************************************)
EXTENDS Integers, Sequences, FiniteSets, TLC

\* ---------------------------------------------------------------- bounds
MaxDepth == 2      \* --depth is drawn from -1 .. MaxDepth
MaxPages == 4      \* --max-pages is drawn from 0 .. MaxPages
MaxFail  == 1      \* at most this many addresses of a site fail

\* ------------------------------------------------------------- addresses
\* An address is the parsed form of a URL string.  path is the list of the
\* segments after the host; a trailing "/" is a last, empty segment, so
\* "http://ex.com" has path <<>> and "http://ex.com/" has path <<"">>.
U(host, path) == [scheme |-> "http", host |-> host, path |-> path, fragment |-> ""]

\* Python's None where an address is expected.
NoneUrl == [scheme |-> "", host |-> "", path |-> <<>>, fragment |-> ""]

\* Python's None where a status code is expected: results[url]['http'] is
\* res.get('status_code') of a fetch result that has no such key.
NoStatus == 0

Home == U("ex.com", <<>>)
PA   == U("ex.com", <<"a">>)
PB   == U("www.ex.com", <<"b">>)
PC   == U("ex.com", <<"c">>)
PD   == U("ex.com", <<"d">>)
ExtX == U("other.org", <<"x">>)
ExtY == U("ex.org", <<"y">>)

\* The addresses the modelled server answers for.
Pages == {Home, PA, PB, PC, PD}

\* str.rstrip('/') on the address string: drops every trailing "/".  A
\* string that ends in a fragment does not end in the path.
RECURSIVE StripSlashes(_)
StripSlashes(path) ==
    IF Len(path) > 0 /\ path[Len(path)] = ""
    THEN StripSlashes(SubSeq(path, 1, Len(path) - 1))
    ELSE path

rstrip(u) == IF u.fragment = "" THEN [u EXCEPT !.path = StripSlashes(u.path)] ELSE u

\* tldextract.extract: the registrable domain and the public suffix of the host.
extract(u) ==
    CASE u.host = "ex.com"     -> [subdomain |-> "",    domain |-> "ex",    suffix |-> "com"]
      [] u.host = "www.ex.com" -> [subdomain |-> "www", domain |-> "ex",    suffix |-> "com"]
      [] u.host = "ex.org"     -> [subdomain |-> "",    domain |-> "ex",    suffix |-> "org"]
      [] u.host = "other.org"  -> [subdomain |-> "",    domain |-> "other", suffix |-> "org"]
      [] OTHER                 -> [subdomain |-> "",    domain |-> "",      suffix |-> ""]

\* is_same_domain with `or` for `and`.
is_same_domain_either(start, test) ==
    LET s == extract(start)
        t == extract(test)
    IN  s.domain = t.domain \/ s.suffix = t.suffix

is_same_domain(start, test) ==
    LET s == extract(start)
        t == extract(test)
    IN  s.domain = t.domain /\ s.suffix = t.suffix

\* ----------------------------------------------------------------- hrefs
\* The href attribute of an anchor, by the shape of its text:
\*   none        no href attribute (None)
\*   empty       ""
\*   blank       whitespace only
\*   javascript, mailto, tel   "javascript:...", "mailto:...", "tel:..."
\*   abs         an absolute URL                    (url: the URL)
\*   path        "/seg/seg#frag", root-relative     (url.path, url.fragment)
\*   frag        "#frag"                            (url.fragment)
\*   malformed   a URL urlsplit refuses, such as "http://["
Href(kind, url) == [kind |-> kind, url |-> url]

Abs(u)      == [href |-> Href("abs", u)]
AbsFrag(u)  == [href |-> Href("abs", [u EXCEPT !.fragment = "top"])]
Ftp(u)      == [href |-> Href("abs", [u EXCEPT !.scheme = "ftp"])]
Rel(path)   == [href |-> Href("path", U("", path))]
FragOnly    == [href |-> Href("frag", [NoneUrl EXCEPT !.fragment = "top"])]
Plain(kind) == [href |-> Href(kind, NoneUrl)]

\* The ValueError ("Invalid IPv6 URL") that urljoin and urlparse raise for a
\* malformed URL; norm_url has no handler, so it leaves norm_url.
ValueError == [scheme |-> "ValueError", host |-> "", path |-> <<>>, fragment |-> ""]

\* urllib.parse.urljoin(base, link) for the href shapes above.
urljoin(base, link) ==
    CASE link.kind = "abs"  -> link.url
      [] link.kind = "path" -> [base EXCEPT !.path = link.url.path,
                                            !.fragment = link.url.fragment]
      [] link.kind = "frag" -> [base EXCEPT !.fragment = link.url.fragment]
      [] OTHER              -> base

norm_url(base, link) ==
    IF link.kind \in {"none", "empty"} THEN NoneUrl
    ELSE IF link.kind \in {"javascript", "mailto", "tel"} THEN NoneUrl
    ELSE IF link.kind = "malformed" THEN ValueError
    ELSE LET joined == urljoin(base, link)
         IN  IF joined.scheme \notin {"http", "https"} THEN NoneUrl
             ELSE [joined EXCEPT !.fragment = ""]

\* ------------------------------------------------------------------ text
\* A string is the sequence of its tokens; a token is a maximal run of
\* letters, a maximal run of digits, or one other character.  The empty
\* string is <<>>.
Space == " "

\* runs of digits
Digits == {"2024"}

\* characters of the class [a-zA-Z0-9\-\_ ] that are neither letter nor digit
Joiners == {"-", "_", Space}

\* characters outside that class
Marks == {"|", ",", "!"}

\* runs of fewer than two letters
Single == {"x", "e"}

\* str.lower on the runs of letters that have capitals
Capitals == [Home |-> "home", Acme |-> "acme", Shop |-> "shop", Shoes |-> "shoes",
             Running |-> "running", The |-> "the", Contact |-> "contact",
             Welcome |-> "welcome", Zebra |-> "zebra"]

lower(tok) == IF tok \in DOMAIN Capitals THEN Capitals[tok] ELSE tok

\* WORD_RE, [a-zA-Z]{2,}, matches the token.
IsWord(tok) == tok \notin Digits \cup Joiners \cup Marks \cup Single

\* The part of the stopword list the documents meet.
STOPWORDS == {"the", "and", "to", "of", "for", "our", "your", "about", "with"}

\* str.strip
RECURSIVE lstrip(_)
lstrip(text) ==
    IF text # <<>> /\ Head(text) = Space THEN lstrip(Tail(text)) ELSE text

RECURSIVE rstrip_space(_)
rstrip_space(text) ==
    IF text # <<>> /\ text[Len(text)] = Space
    THEN rstrip_space(SubSeq(text, 1, Len(text) - 1)) ELSE text

strip(text) == rstrip_space(lstrip(text))

\* A long text is written as runs: [tok |-> t, n |-> k] is t and a space,
\* k times over.
Times(t, k) == [tok |-> t, n |-> k]

RECURSIVE Total(_)
Total(runs) == IF runs = <<>> THEN 0 ELSE Head(runs).n + Total(Tail(runs))

\* A list given by a rule, with its elements worked out once.
List(f) == f \o <<>>

\* WORD_RE.findall(text.lower()) on runs
findall_words(runs) ==
    LET found == SelectSeq(runs, LAMBDA r : IsWord(r.tok))
    IN  List([j \in 1 .. Len(found) |-> Times(lower(found[j].tok), found[j].n)])

\* re.findall(r"[a-zA-Z0-9\-\_ ]{2,}", text): the stretches between marks.
\* A stretch of one character holds no word and is left out as well.
RECURSIVE findall_stretches(_, _)
findall_stretches(text, cur) ==
    IF text = <<>> THEN (IF cur = <<>> THEN <<>> ELSE <<cur>>)
    ELSE IF Head(text) \in Marks
         THEN (IF cur = <<>> THEN <<>> ELSE <<cur>>) \o findall_stretches(Tail(text), <<>>)
         ELSE findall_stretches(Tail(text), Append(cur, Head(text)))

\* [w for w in WORD_RE.findall(c.lower()) if w not in STOPWORDS]
RECURSIVE phrase_words(_)
phrase_words(c) ==
    IF c = <<>> THEN <<>>
    ELSE (IF IsWord(Head(c)) /\ lower(Head(c)) \notin STOPWORDS
          THEN <<lower(Head(c))>> ELSE <<>>) \o phrase_words(Tail(c))

\* ' '.join(words)
RECURSIVE join(_)
join(words) ==
    IF Len(words) <= 1 THEN words
    ELSE <<Head(words), Space>> \o join(Tail(words))

\* str.split()
split(text) == SelectSeq(text, LAMBDA t : t # Space)

\* ---------------------------------------------------------------- Counter
\* A Counter is the sequence of its [key, n] entries in insertion order.
\* Counter(adds) is the Counter after the additions adds, each [tok, n], were
\* made in turn: a key stands where it was first added, with the total of
\* its additions.
FirstAdds(adds) ==
    SelectSeq([j \in 1 .. Len(adds) |-> j],
              LAMBDA j : \A m \in 1 .. j - 1 : adds[m].tok # adds[j].tok)

Totals(adds, firsts) ==
    List([k \in 1 .. Len(firsts) |->
             [key |-> adds[firsts[k]].tok,
              n   |-> Total(SelectSeq(adds, LAMBDA a : a.tok = adds[firsts[k]].tok))]])

Counter(adds) == Totals(adds, FirstAdds(adds))

\* list.sort and sorted(reverse=True) are stable.  Sort keys are tuples of
\* one or two numbers, the larger first; an entry stands behind those with a
\* larger key and behind the earlier ones with an equal key.
Larger(a, b) == a[1] > b[1] \/ (a[1] = b[1] /\ Len(a) = 2 /\ a[2] > b[2])

Places(seq) ==
    List([j \in 1 .. Len(seq) |->
             1 + Cardinality({m \in 1 .. Len(seq) :
                    \/ Larger(seq[m].sortkey, seq[j].sortkey)
                    \/ seq[m].sortkey = seq[j].sortkey /\ m < j})])

Placed(seq, place) ==
    List([q \in 1 .. Len(seq) |-> seq[CHOOSE j \in 1 .. Len(seq) : place[j] = q]])

Sorted(seq) == Placed(seq, Places(seq))

Take(seq, k) == SubSeq(seq, 1, IF Len(seq) < k THEN Len(seq) ELSE k)

Entries(sorted) ==
    List([j \in 1 .. Len(sorted) |-> [key |-> sorted[j].key, n |-> sorted[j].n]])

ByCount(counter) ==
    List([j \in 1 .. Len(counter) |->
             [key |-> counter[j].key, n |-> counter[j].n, sortkey |-> <<counter[j].n>>]])

\* Counter.most_common(k): the k largest counts, ties in insertion order.
most_common(counter, k) == Take(Entries(Sorted(ByCount(counter))), k)

\* ------------------------------------------------------------- the sites
\* A document, as BeautifulSoup reads it: its anchors, the text of its title
\* element, the content of its description meta element, the texts of its h1
\* elements, its img elements and its whole text.
Doc(anchors, title, meta, h1s, images, body) ==
    [anchors |-> anchors, title |-> title, meta_description |-> meta,
     h1s |-> h1s, images |-> images, body |-> body]

Img(src, alt) == [src |-> src, alt |-> alt]

\* the empty body ''
NoDoc == Doc(<<>>, <<>>, <<>>, <<>>, <<>>, <<>>)

\* What the pages of the site say.  Home and PA have the same title once it
\* is stripped, Home and PB the same description; PC and PD differ in a
\* capital.  Home has 301 words, PA 299, PB 300.
Content(u) ==
    CASE u = Home -> Doc(<<>>, <<Space, "Acme", Space, "Shop", Space>>,
                         <<"Running", Space, "Shoes">>,
                         << <<"Welcome", Space, "to", Space, "Acme">> >>,
                         <<Img("logo.png", ""), Img("hero.png", "Shoes")>>,
                         <<Times("Acme", 150), Times("running", 100),
                           Times("the", 20), Times("shoes", 31)>>)
      [] u = PA   -> Doc(<<>>, <<"Acme", Space, "Shop">>, <<>>, <<>>, <<>>,
                         <<Times("shoes", 200), Times("2024", 5), Times("x", 3),
                           Times("trail", 99)>>)
      [] u = PB   -> Doc(<<>>, <<>>, <<Space, "Running", Space, "Shoes">>,
                         << <<"Running", Space, "Shoes", Space, "|", Space, "Acme">>,
                            <<Space>> >>,
                         <<Img("a.png", "")>>,
                         <<Times("running", 120), Times("shoes", 120), Times("and", 60)>>)
      [] u = PC   -> Doc(<<>>, <<"Contact">>, <<"Contact", Space, "Acme">>,
                         << <<"Contact">> >>, <<Img("map.png", "Map")>>,
                         <<Times("contact", 2), Times("acme", 1)>>)
      [] u = PD   -> Doc(<<>>, <<"contact">>, <<"contact", Space, "Acme">>,
                         << <<"e", "-", "mail">> >>, <<>>,
                         <<Times("contact", 1), Times("mail", 4)>>)
      [] OTHER    -> Doc(<<>>, <<"Elsewhere">>, <<>>, <<>>, <<>>, <<Times("elsewhere", 1)>>)

Document(u, anchors) == [Content(u) EXCEPT !.anchors = anchors]

\* A link graph: the anchors of the document each address serves.
Graph(h, a, b, c, dd) ==
    [u \in Pages |-> CASE u = Home -> h [] u = PA -> a [] u = PB -> b
                       [] u = PC -> c [] OTHER -> dd]

\* diamond with cycles: PC is found from PA and from PB in the same round
GDiamond == Graph(<<Abs(PA), Abs(PB)>>,
                  <<Abs(PC), Abs(Home)>>,
                  <<AbsFrag(PC), Abs(PA), Abs(PD)>>,
                  <<Abs(PD), Abs(PB)>>,
                  <<Abs(Home)>>)
\* fan: PA and PB each lead to a page of their own
GFan     == Graph(<<Abs(PA), Abs(PB)>>, <<Abs(PC)>>, <<Abs(PD)>>, <<>>, <<>>)
\* chain with repeated, relative and self links
GChain   == Graph(<<Abs(PA), AbsFrag(PA), Rel(<<"a">>), FragOnly>>,
                  <<Rel(<<"a">>), Abs(PB)>>,
                  <<Rel(<<"b">>), Abs(PC)>>,
                  <<Abs(PD)>>,
                  <<Plain("blank"), Abs(Home)>>)
\* links that are rejected or lead off the site
GMixed   == Graph(<<Plain("none"), Plain("mailto"), Abs(ExtX), Abs(ExtY),
                    Plain("empty"), Ftp(PA), Rel(<<"c">>), Abs(PB)>>,
                  <<Plain("javascript"), Abs(PD)>>,
                  <<Plain("tel"), Abs(ExtX), Abs(PC)>>,
                  <<Abs(PA), Abs(PB)>>,
                  <<Abs(PC)>>)
\* star: the seed links to every page
GStar    == Graph(<<Abs(PA), Abs(PB), Abs(PC), Abs(PD)>>,
                  <<Abs(Home), Abs(PB)>>, <<Abs(PC)>>, <<Abs(PA)>>, <<Abs(PA)>>)

\* a page with a malformed link
GBad     == Graph(<<Abs(PA), Abs(PB)>>,
                  <<Abs(PC)>>,
                  <<Abs(PA), Plain("malformed"), Abs(PD)>>,
                  <<Abs(PD)>>,
                  <<>>)

Graphs == {GDiamond, GFan, GChain, GMixed, GStar, GBad}

\* What session.get does for an address: raises (message is str(e)) or
\* answers with a status code and a body.
Serve200(html) == [raises |-> FALSE, message |-> "", status_code |-> 200, html |-> html]
Failing(kind, html) ==
    CASE kind = "404"     -> [raises |-> FALSE, message |-> "", status_code |-> 404,
                              html |-> html]
      [] kind = "timeout" -> [raises |-> TRUE, message |-> "timed out",
                              status_code |-> NoStatus, html |-> NoDoc]
      [] OTHER            -> [raises |-> TRUE, message |-> "",
                              status_code |-> NoStatus, html |-> NoDoc]

FailKinds == {"404", "timeout", "silent"}

FailSets == {F \in SUBSET Pages : Cardinality(F) <= MaxFail}

\* The rest of the web: other sites answer too, whoever asks.
Web == Pages \cup {ExtX, ExtY}

ExtAnchors(u) == IF u = ExtY THEN <<Abs(ExtX), Abs(Home)>> ELSE <<Abs(ExtY)>>

Sites == {[u \in Web |-> IF u \notin Pages THEN Serve200(Document(u, ExtAnchors(u)))
                         ELSE IF u \in F THEN Failing(k[u], Document(u, g[u]))
                         ELSE Serve200(Document(u, g[u]))] :
            <<g, F, k>> \in {<<g, F, k>> \in Graphs \X FailSets \X [Pages -> FailKinds] :
                               \A u \in Pages \ F : k[u] = "404"}}

SeedArgs == {Home, U("ex.com", <<"">>)}

Args == [url : SeedArgs, depth : -1 .. MaxDepth, max_pages : 0 .. MaxPages]

\* ----------------------------------------------------------------- state
VARIABLES
    site,           \* the web: what each address answers
    args,           \* main's parsed arguments
    pc,             \* the coordinating thread's position
    start_url, to_visit, visited, results, pages_crawled,   \* crawl's locals
    d,              \* the loop variable of `for d in range(depth + 1)`
    next_round, futures,
    i,              \* position of `for url in to_visit`
    submitted,      \* history: the ex.submit calls, in order, with their round
    stored,         \* history: how many times results[url] was assigned
    inserted,       \* the keys of results in the order the dict holds them
    summary         \* analyze's return value

vars == <<site, args, pc, start_url, to_visit, visited, results, pages_crawled,
          d, next_round, futures, i, submitted, stored, inserted, summary>>

NoResults == [u \in {} |-> [http |-> NoStatus]]
NoSummary == [total_pages |-> -1]

\* ------------------------------------------------------------------ fetch
\* The worker's function.  Any exception of session.get becomes an
\* {'url', 'error'} record; the body is kept for status 200 only.
fetch(url) ==
    IF site[url].raises
    THEN [url |-> url, error |-> site[url].message]
    ELSE [url |-> url, status_code |-> site[url].status_code,
          text |-> IF site[url].status_code = 200 THEN site[url].html
                   ELSE NoDoc]

\* extract_onpage: title and description stripped, the h1 texts stripped,
\* the images and anchors in document order, and the words of the lowered
\* text.  (The keys analyze never reads are left out.)
extract_onpage(url, html) ==
    LET words == findall_words(html.body)
    IN  [title            |-> strip(html.title),
         meta_description |-> strip(html.meta_description),
         h1s              |-> [j \in 1 .. Len(html.h1s) |-> strip(html.h1s[j])],
         images           |-> html.images,
         links            |-> html.anchors,
         word_count       |-> Total(words),
         words            |-> words]

\* dict.get
GetError(res)  == IF "error" \in DOMAIN res THEN res.error ELSE ""
GetStatus(res) == IF "status_code" \in DOMAIN res THEN res.status_code ELSE NoStatus
GetHttp(r)     == IF "http" \in DOMAIN r THEN r.http ELSE NoStatus

\* ------------------------------------------------------------------ crawl
\* collect_links without `norm not in next_round` on line 206.
RECURSIVE collect_links_repeating(_, _, _, _, _, _, _, _)
collect_links_repeating(nr, links, k, url, start, vis, crawled, max_pages) ==
    IF k > Len(links) THEN [raised |-> FALSE, next_round |-> nr]
    ELSE LET norm == norm_url(url, links[k].href)
             keep == /\ norm # NoneUrl
                     /\ is_same_domain(start, norm)
                     /\ norm \notin vis
                     /\ Len(nr) + crawled < max_pages
         IN  IF norm = ValueError THEN [raised |-> TRUE, next_round |-> nr]
             ELSE collect_links_repeating(IF keep THEN Append(nr, norm) ELSE nr,
                                links, k + 1, url, start, vis, crawled, max_pages)

\* Lines 201-207: the links of one fetched page, appended to next_round.
\* The loop ends early, with raised set, when norm_url raises.
RECURSIVE collect_links(_, _, _, _, _, _, _, _)
collect_links(nr, links, k, url, start, vis, crawled, max_pages) ==
    IF k > Len(links) THEN [raised |-> FALSE, next_round |-> nr]
    ELSE LET norm == norm_url(url, links[k].href)
             keep == /\ norm # NoneUrl
                     /\ is_same_domain(start, norm)
                     /\ norm \notin vis
                     /\ \A j \in 1 .. Len(nr) : nr[j] # norm
                     /\ Len(nr) + crawled < max_pages
         IN  IF norm = ValueError THEN [raised |-> TRUE, next_round |-> nr]
             ELSE collect_links(IF keep THEN Append(nr, norm) ELSE nr,
                                links, k + 1, url, start, vis, crawled, max_pages)

\* Lines 185-199: the entry of results for one fetch result.
outcome(url, res) ==
    IF GetError(res) # ""
    THEN [error |-> GetError(res)]
    ELSE IF GetStatus(res) # 200
    THEN [http |-> GetStatus(res)]
    ELSE [http |-> GetStatus(res), onpage |-> extract_onpage(url, res.text)]

\* A dict keeps its keys in insertion order; assigning to a key it holds
\* leaves the key where it is.
Insert(keys, key) ==
    IF \E j \in 1 .. Len(keys) : keys[j] = key THEN keys ELSE Append(keys, key)

Put(map, key, val) ==
    [u \in DOMAIN map \cup {key} |-> IF u = key THEN val ELSE map[u]]

\* ---------------------------------------------------------------- analyze
\* broken_of with line 281 reduced to `rr.get('http') != 200`.
RECURSIVE broken_of_any(_, _, _, _)
broken_of_any(res, url, links, k) ==
    IF k > Len(links) THEN <<>>
    ELSE LET norm == norm_url(url, links[k].href)
             rest == broken_of_any(res, url, links, k + 1)
         IN  IF norm = NoneUrl \/ norm = ValueError THEN rest
             ELSE IF is_same_domain(url, norm)
             THEN IF norm \in DOMAIN res
                  THEN IF GetHttp(res[norm]) # 200
                       THEN <<[href |-> norm, http |-> GetHttp(res[norm])]>> \o rest
                       ELSE rest
                  ELSE rest
             ELSE rest

\* Lines 271-284: the broken internal links of one page.  `rr.get('http')`
\* is false for a record without a status.
RECURSIVE broken_of(_, _, _, _)
broken_of(res, url, links, k) ==
    IF k > Len(links) THEN <<>>
    ELSE LET norm == norm_url(url, links[k].href)
             rest == broken_of(res, url, links, k + 1)
         IN  IF norm = NoneUrl \/ norm = ValueError THEN rest
             ELSE IF is_same_domain(url, norm)
             THEN IF norm \in DOMAIN res
                  THEN IF GetHttp(res[norm]) # NoStatus /\ GetHttp(res[norm]) # 200
                       THEN <<[href |-> norm, http |-> GetHttp(res[norm])]>> \o rest
                       ELSE rest
                  ELSE rest
             ELSE rest

\* dict.get with a default
Get(rec, key, default) == IF key \in DOMAIN rec THEN rec[key] ELSE default

\* Lines 232-241: the entries that are skipped by every content check.
is_page(r) == "error" \notin DOMAIN r /\ GetHttp(r) = 200

\* onpage_of that reads a failed entry as a page without content.
onpage_of_failed_as_empty(r) ==
    [skip |-> FALSE, on |-> IF "onpage" \in DOMAIN r THEN r.onpage ELSE <<>>]

\* Lines 234-242: a failed entry is left with `continue`; otherwise the
\* content checks read r['onpage'].
onpage_of(r) ==
    IF ~is_page(r) THEN [skip |-> TRUE, on |-> <<>>]
    ELSE [skip |-> FALSE, on |-> r.onpage]

\* line 263
ThinBelow == 300
\* line 308
TopWords == 80
\* line 325
MaxPhraseWords == 5
\* line 328
TopPhrases == 40
\* line 332
TopUnigrams == 120
\* line 340
KeptCandidates == 40

\* Lines 233-254: the per_page entry of one address.  (The lengths count
\* tokens here, characters in the program.)
page_report(r) ==
    IF "error" \in DOMAIN r THEN [error |-> r.error]
    ELSE IF GetHttp(r) # 200 THEN [http |-> GetHttp(r)]
    ELSE LET on == r.onpage
         IN  [title                   |-> Get(on, "title", <<>>),
              title_length            |-> Len(Get(on, "title", <<>>)),
              meta_description        |-> Get(on, "meta_description", <<>>),
              meta_description_length |-> Len(Get(on, "meta_description", <<>>)),
              h1s                     |-> Get(on, "h1s", <<>>),
              word_count              |-> Get(on, "word_count", 0),
              num_images              |-> Len(Get(on, "images", <<>>))]

\* per_page without the failed addresses.
per_page_pages_only(res) ==
    [u \in {v \in DOMAIN res : is_page(res[v])} |-> page_report(res[u])]

\* Lines 236, 240 and 298: every address gets its entry.
per_page(res) == [u \in DOMAIN res |-> page_report(res[u])]

\* Line 266: the src of every image whose alt is empty or missing.
RECURSIVE missing_alts(_)
missing_alts(images) ==
    IF images = <<>> THEN <<>>
    ELSE (IF Get(Head(images), "alt", "") = "" THEN <<Head(images).src>> ELSE <<>>)
         \o missing_alts(Tail(images))

\* is_thin with `<=` for `<`.
is_thin_inclusive(wc) == wc <= ThinBelow

\* Line 263
is_thin(wc) == wc < ThinBelow

\* field_adds that strips the value before it is counted.
RECURSIVE field_adds_stripped(_, _, _, _)
field_adds_stripped(res, pages, k, field) ==
    IF k > Len(pages) THEN <<>>
    ELSE LET v == strip(Get(onpage_of(res[pages[k]]).on, field, <<>>))
         IN  (IF v # <<>> THEN <<Times(v, 1)>> ELSE <<>>)
             \o field_adds_stripped(res, pages, k + 1, field)

\* Lines 292-296: the additions to title_counts or meta_counts, over the
\* checked pages in order: one for every non-empty value.
RECURSIVE field_adds(_, _, _, _)
field_adds(res, pages, k, field) ==
    IF k > Len(pages) THEN <<>>
    ELSE LET v == Get(onpage_of(res[pages[k]]).on, field, <<>>)
         IN  (IF v # <<>> THEN <<Times(v, 1)>> ELSE <<>>)
             \o field_adds(res, pages, k + 1, field)

\* Lines 289-290: word_counts.update(words) with the words off the stopword
\* list, over the checked pages in order.
RECURSIVE word_adds(_, _, _)
word_adds(res, pages, k) ==
    IF k > Len(pages) THEN <<>>
    ELSE SelectSeq(Get(onpage_of(res[pages[k]]).on, "words", <<>>),
                   LAMBDA w : w.tok \notin STOPWORDS)
         \o word_adds(res, pages, k + 1)

\* Lines 323-326: the phrases of the candidates of one page.
RECURSIVE candidate_adds(_)
candidate_adds(candidates) ==
    IF candidates = <<>> THEN <<>>
    ELSE LET words == phrase_words(Head(candidates))
         IN  (IF 1 <= Len(words) /\ Len(words) <= MaxPhraseWords
              THEN <<Times(join(words), 1)>> ELSE <<>>)
             \o candidate_adds(Tail(candidates))

\* Lines 318-322: the stretches of the title and of every h1.
RECURSIVE h1_candidates(_)
h1_candidates(h1s) ==
    IF h1s = <<>> THEN <<>>
    ELSE findall_stretches(Head(h1s), <<>>) \o h1_candidates(Tail(h1s))

\* Lines 313-326: every entry that has an 'onpage' is read.
RECURSIVE phrase_adds(_, _, _)
phrase_adds(res, keys, k) ==
    IF k > Len(keys) THEN <<>>
    ELSE IF "onpage" \notin DOMAIN res[keys[k]]
         THEN phrase_adds(res, keys, k + 1)
         ELSE LET on == res[keys[k]].onpage
                  candidates == findall_stretches(Get(on, "title", <<>>), <<>>)
                                \o h1_candidates(Get(on, "h1s", <<>>))
              IN  candidate_adds(candidates) \o phrase_adds(res, keys, k + 1)

\* Line 332: the words of the first 120 entries of top_words.
top_unigram_set(top_words) ==
    {top_words[j].key : j \in 1 .. Len(Take(top_words, TopUnigrams))}

\* Lines 333-338: overlap and score of every top phrase.
high_value(top_phrases, unigrams) ==
    List([j \in 1 .. Len(top_phrases) |->
             LET parts   == split(top_phrases[j].key)
                 overlap == Len(SelectSeq(parts, LAMBDA w : w \in unigrams))
             IN  [phrase  |-> top_phrases[j].key,
                  count   |-> top_phrases[j].n,
                  overlap_with_top_unigrams |-> overlap,
                  score   |-> top_phrases[j].n + overlap,
                  sortkey |-> <<top_phrases[j].n + overlap, top_phrases[j].n>>]])

Candidates(sorted) ==
    List([j \in 1 .. Len(sorted) |->
             [phrase |-> sorted[j].phrase, count |-> sorted[j].count,
              overlap_with_top_unigrams |-> sorted[j].overlap_with_top_unigrams,
              score |-> sorted[j].score]])

\* Lines 330-340: the top phrases sorted by (-score, -count), the first 40
\* kept.
candidate_phrases(top_words, top_phrases) ==
    Candidates(Take(Sorted(high_value(top_phrases, top_unigram_set(top_words))),
                    KeptCandidates))

\* Lines 301-306: the values counted more than once.
duplicates(counter) ==
    [t \in {counter[j].key : j \in {m \in 1 .. Len(counter) : counter[m].n > 1}} |->
        (CHOOSE e \in {counter[j] : j \in 1 .. Len(counter)} : e.key = t).n]

\* Lines 232-298 and 340, given the checked pages and the two top lists.
report(res, keys, pages, top_words, top_phrases) ==
    LET on(u)  == onpage_of(res[u]).on
        broken(u) == broken_of(res, u, Get(on(u), "links", <<>>), 1)
        alts(u)   == missing_alts(Get(on(u), "images", <<>>))
    IN  [total_pages  |-> Len(keys),
         pages_missing_title |->
             SelectSeq(pages, LAMBDA u : Get(on(u), "title", <<>>) = <<>>),
         pages_missing_meta_description |->
             SelectSeq(pages, LAMBDA u : Get(on(u), "meta_description", <<>>) = <<>>),
         pages_missing_h1 |->
             SelectSeq(pages, LAMBDA u : Get(on(u), "h1s", <<>>) = <<>>),
         thin_pages |->
             SelectSeq(pages, LAMBDA u : is_thin(Get(on(u), "word_count", 0))),
         images_missing_alt |->
             [u \in {v \in DOMAIN res : ~onpage_of(res[v]).skip /\ alts(v) # <<>>} |-> alts(u)],
         broken_links |->
             [u \in {v \in DOMAIN res : ~onpage_of(res[v]).skip /\ broken(v) # <<>>}
                 |-> broken(u)],
         duplicate_titles |->
             duplicates(Counter(field_adds(res, pages, 1, "title"))),
         duplicate_meta_descriptions |->
             duplicates(Counter(field_adds(res, pages, 1, "meta_description"))),
         top_words    |-> top_words,
         candidate_phrases |-> candidate_phrases(top_words, top_phrases),
         per_page     |-> per_page(res)]

\* The checked pages, in the order of the dict.
checked(res, keys) == SelectSeq(keys, LAMBDA u : ~onpage_of(res[u]).skip)

\* Lines 212-340: the report.  keys is list(results.keys()): the loops run in
\* the order of the dict.  (The checklist and the recommendations restate
\* the lists and are left out.)
analyze(res, keys) ==
    report(res, keys, checked(res, keys),
           most_common(Counter(word_adds(res, checked(res, keys), 1)), TopWords),
           most_common(Counter(phrase_adds(res, keys, 1)), TopPhrases))

Init ==
    /\ site \in Sites
    /\ args \in Args
    /\ pc = "main"
    /\ start_url = NoneUrl
    /\ to_visit = <<>>
    /\ visited = {}
    /\ results = NoResults
    /\ pages_crawled = 0
    /\ d = 0
    /\ next_round = <<>>
    /\ futures = <<>>
    /\ i = 1
    /\ submitted = <<>>
    /\ stored = [u \in Web |-> 0]
    /\ inserted = <<>>
    /\ summary = NoSummary

\* main calls crawl; lines 158-163.
crawl_begin ==
    /\ pc = "main"
    /\ pc' = "for_d"
    /\ start_url' = rstrip(args.url)
    /\ to_visit' = <<rstrip(args.url)>>
    /\ visited' = {}
    /\ results' = NoResults
    /\ pages_crawled' = 0
    /\ d' = 0
    /\ UNCHANGED <<site, args, next_round, futures, i, submitted, stored, inserted, summary>>

\* round_begin with range(depth + 2): one round too many.
round_begin_extra ==
    /\ pc = "for_d"
    /\ IF d > args.depth + 1 \/ pages_crawled >= args.max_pages
       THEN /\ pc' = "return"
            /\ UNCHANGED <<next_round, futures, i>>
       ELSE /\ pc' = "submit"
            /\ next_round' = <<>>
            /\ futures' = <<>>
            /\ i' = 1
    /\ UNCHANGED <<site, args, start_url, to_visit, visited, results, pages_crawled,
                   d, submitted, stored, inserted, summary>>

\* round_begin with range(depth): one round too few.
round_begin_short ==
    /\ pc = "for_d"
    /\ IF d >= args.depth \/ pages_crawled >= args.max_pages
       THEN /\ pc' = "return"
            /\ UNCHANGED <<next_round, futures, i>>
       ELSE /\ pc' = "submit"
            /\ next_round' = <<>>
            /\ futures' = <<>>
            /\ i' = 1
    /\ UNCHANGED <<site, args, start_url, to_visit, visited, results, pages_crawled,
                   d, submitted, stored, inserted, summary>>

\* Lines 165-169: the head of a round.  range(depth + 1) is exhausted when
\* d > depth; the budget check breaks out of the loop.
round_begin ==
    /\ pc = "for_d"
    /\ IF d > args.depth \/ pages_crawled >= args.max_pages
       THEN /\ pc' = "return"
            /\ UNCHANGED <<next_round, futures, i>>
       ELSE /\ pc' = "submit"
            /\ next_round' = <<>>
            /\ futures' = <<>>
            /\ i' = 1
    /\ UNCHANGED <<site, args, start_url, to_visit, visited, results, pages_crawled,
                   d, submitted, stored, inserted, summary>>

\* submit with line 178 left out: the fetch is dispatched but not counted.
submit_uncounted ==
    /\ pc = "submit"
    /\ IF i > Len(to_visit) \/ pages_crawled >= args.max_pages
       THEN /\ pc' = "as_completed"
            /\ UNCHANGED <<visited, futures, i, submitted>>
       ELSE IF to_visit[i] \in visited
       THEN /\ i' = i + 1
            /\ UNCHANGED <<pc, visited, futures, submitted>>
       ELSE /\ visited' = visited \cup {to_visit[i]}
            /\ futures' = Append(futures, [url |-> to_visit[i], state |-> "pending",
                                           res |-> [url |-> to_visit[i]]])
            /\ i' = i + 1
            /\ submitted' = Append(submitted, [url |-> to_visit[i], round |-> d])
            /\ UNCHANGED pc
    /\ UNCHANGED <<site, args, start_url, to_visit, results, d, next_round, stored, inserted,
                   summary, pages_crawled>>

\* submit with line 176 left out: the address is never marked visited.
submit_unmarked ==
    /\ pc = "submit"
    /\ IF i > Len(to_visit) \/ pages_crawled >= args.max_pages
       THEN /\ pc' = "as_completed"
            /\ UNCHANGED <<futures, pages_crawled, i, submitted>>
       ELSE IF to_visit[i] \in visited
       THEN /\ i' = i + 1
            /\ UNCHANGED <<pc, futures, pages_crawled, submitted>>
       ELSE /\ futures' = Append(futures, [url |-> to_visit[i], state |-> "pending",
                                           res |-> [url |-> to_visit[i]]])
            /\ pages_crawled' = pages_crawled + 1
            /\ i' = i + 1
            /\ submitted' = Append(submitted, [url |-> to_visit[i], round |-> d])
            /\ UNCHANGED pc
    /\ UNCHANGED <<site, args, start_url, to_visit, results, d, next_round, stored, inserted,
                   summary, visited>>

\* Lines 171-178: one iteration of `for url in to_visit`.
submit ==
    /\ pc = "submit"
    /\ IF i > Len(to_visit) \/ pages_crawled >= args.max_pages
       THEN /\ pc' = "as_completed"
            /\ UNCHANGED <<visited, futures, pages_crawled, i, submitted>>
       ELSE IF to_visit[i] \in visited
       THEN /\ i' = i + 1
            /\ UNCHANGED <<pc, visited, futures, pages_crawled, submitted>>
       ELSE /\ visited' = visited \cup {to_visit[i]}
            /\ futures' = Append(futures, [url |-> to_visit[i], state |-> "pending",
                                           res |-> [url |-> to_visit[i]]])
            /\ pages_crawled' = pages_crawled + 1
            /\ i' = i + 1
            /\ submitted' = Append(submitted, [url |-> to_visit[i], round |-> d])
            /\ UNCHANGED pc
    /\ UNCHANGED <<site, args, start_url, to_visit, results, d, next_round, stored, inserted,
                   summary>>

\* A worker that stores its result in results itself.
worker_recording(f) ==
    /\ f \in 1 .. Len(futures)
    /\ futures[f].state = "pending"
    /\ futures' = [futures EXCEPT ![f] = [url |-> futures[f].url, state |-> "finished",
                                          res |-> fetch(futures[f].url)]]
    /\ results' = Put(results, futures[f].url,
                      outcome(futures[f].url, fetch(futures[f].url)))
    /\ stored' = [stored EXCEPT ![futures[f].url] = @ + 1]
    /\ inserted' = Insert(inserted, futures[f].url)
    /\ UNCHANGED <<site, args, pc, start_url, to_visit, visited,
                   pages_crawled, d, next_round, i, submitted, summary>>

\* A pool worker runs fetch for a submitted future; lines 72-86.
worker(f) ==
    /\ f \in 1 .. Len(futures)
    /\ futures[f].state = "pending"
    /\ futures' = [futures EXCEPT ![f] = [url |-> futures[f].url, state |-> "finished",
                                          res |-> fetch(futures[f].url)]]
    /\ UNCHANGED <<site, args, pc, start_url, to_visit, visited, results,
                   pages_crawled, d, next_round, i, submitted, stored, inserted, summary>>

\* completed that skips a failed fetch without recording it.
completed_dropping(f) ==
    /\ pc = "as_completed"
    /\ f \in 1 .. Len(futures)
    /\ futures[f].state = "finished"
    /\ LET url == futures[f].url
           res == futures[f].res
           rec == outcome(url, res)
           out == IF "onpage" \in DOMAIN rec
                  THEN collect_links(next_round, rec.onpage.links, 1, url, start_url,
                                     visited, pages_crawled, args.max_pages)
                  ELSE [raised |-> FALSE, next_round |-> next_round]
       IN  /\ results' = IF "error" \in DOMAIN rec THEN results ELSE Put(results, url, rec)
           /\ stored' = IF "error" \in DOMAIN rec THEN stored
                        ELSE [stored EXCEPT ![url] = @ + 1]
           /\ inserted' = IF "error" \in DOMAIN rec THEN inserted
                          ELSE Insert(inserted, url)
           /\ next_round' = out.next_round
           /\ pc' = IF out.raised THEN "raised" ELSE pc
    /\ futures' = [futures EXCEPT ![f].state = "yielded"]
    /\ UNCHANGED <<site, args, start_url, to_visit, visited, pages_crawled, d, i,
                   submitted, summary>>

\* completed that gives up the crawl when a fetch has failed.
completed_aborting(f) ==
    /\ pc = "as_completed"
    /\ f \in 1 .. Len(futures)
    /\ futures[f].state = "finished"
    /\ LET url == futures[f].url
           res == futures[f].res
           rec == outcome(url, res)
           out == IF "onpage" \in DOMAIN rec
                  THEN collect_links(next_round, rec.onpage.links, 1, url, start_url,
                                     visited, pages_crawled, args.max_pages)
                  ELSE [raised |-> FALSE, next_round |-> next_round]
       IN  /\ results' = Put(results, url, rec)
           /\ stored' = [stored EXCEPT ![url] = @ + 1]
           /\ inserted' = Insert(inserted, url)
           /\ next_round' = out.next_round
           /\ pc' = IF out.raised THEN "raised"
                    ELSE IF "onpage" \in DOMAIN rec THEN pc ELSE "return"
    /\ futures' = [futures EXCEPT ![f].state = "yielded"]
    /\ UNCHANGED <<site, args, start_url, to_visit, visited, pages_crawled, d, i,
                   submitted, summary>>

\* completed that gives the budget slot of a failed fetch back.
completed_refunding(f) ==
    /\ pc = "as_completed"
    /\ f \in 1 .. Len(futures)
    /\ futures[f].state = "finished"
    /\ LET url == futures[f].url
           res == futures[f].res
           rec == outcome(url, res)
           out == IF "onpage" \in DOMAIN rec
                  THEN collect_links(next_round, rec.onpage.links, 1, url, start_url,
                                     visited, pages_crawled, args.max_pages)
                  ELSE [raised |-> FALSE, next_round |-> next_round]
       IN  /\ results' = Put(results, url, rec)
           /\ stored' = [stored EXCEPT ![url] = @ + 1]
           /\ inserted' = Insert(inserted, url)
           /\ next_round' = out.next_round
           /\ pc' = IF out.raised THEN "raised" ELSE pc
           /\ pages_crawled' = IF "onpage" \in DOMAIN rec THEN pages_crawled
                               ELSE pages_crawled - 1
    /\ futures' = [futures EXCEPT ![f].state = "yielded"]
    /\ UNCHANGED <<site, args, start_url, to_visit, visited, d, i,
                   submitted, summary>>

\* Lines 180-207: as_completed yields one finished future; its result is
\* recorded and, for a 200, its links are queued.  A ValueError of norm_url
\* leaves the loop, the with block and crawl: main ends with the traceback.
completed(f) ==
    /\ pc = "as_completed"
    /\ f \in 1 .. Len(futures)
    /\ futures[f].state = "finished"
    /\ \E rec \in {outcome(futures[f].url, futures[f].res)} :
       LET url == futures[f].url
           out == IF "onpage" \in DOMAIN rec
                  THEN collect_links(next_round, rec.onpage.links, 1, url, start_url,
                                     visited, pages_crawled, args.max_pages)
                  ELSE [raised |-> FALSE, next_round |-> next_round]
       IN  /\ results' = Put(results, url, rec)
           /\ stored' = [stored EXCEPT ![url] = @ + 1]
           /\ inserted' = Insert(inserted, url)
           /\ next_round' = out.next_round
           /\ pc' = IF out.raised THEN "raised" ELSE pc
    /\ futures' = [futures EXCEPT ![f].state = "yielded"]
    /\ UNCHANGED <<site, args, start_url, to_visit, visited, pages_crawled, d, i,
                   submitted, summary>>

\* round_end that does not wait for the futures of the round.
round_end_early ==
    /\ pc = "as_completed"
    /\ to_visit' = next_round
    /\ d' = d + 1
    /\ pc' = "for_d"
    /\ UNCHANGED <<site, args, start_url, visited, results, pages_crawled, next_round,
                   futures, i, submitted, stored, inserted, summary>>

\* Line 208: every future has been yielded; the pool is shut down.
round_end ==
    /\ pc = "as_completed"
    /\ \A f \in 1 .. Len(futures) : futures[f].state = "yielded"
    /\ to_visit' = next_round
    /\ d' = d + 1
    /\ pc' = "for_d"
    /\ UNCHANGED <<site, args, start_url, visited, results, pages_crawled, next_round,
                   futures, i, submitted, stored, inserted, summary>>

\* Line 209 and main, lines 427-428: crawl returns results, main analyzes.
analyze_results ==
    /\ pc = "return"
    /\ summary' = analyze(results, inserted)
    /\ pc' = "done"
    /\ UNCHANGED <<site, args, start_url, to_visit, visited, results, pages_crawled,
                   d, next_round, futures, i, submitted, stored, inserted>>

Next ==
    \/ crawl_begin
    \/ round_begin
    \/ submit
    \/ \E f \in 1 .. MaxPages + 1 : worker(f)
    \/ \E f \in 1 .. MaxPages + 1 : completed(f)
    \/ round_end
    \/ analyze_results

Spec == Init /\ [][Next]_vars


\* Inside crawl the coordinating thread keeps running and every submitted
\* fetch returns (session.get is called with a timeout).  Nothing is assumed
\* about what main does once crawl has returned.
Fairness ==
    /\ WF_vars(crawl_begin)
    /\ WF_vars(round_begin)
    /\ WF_vars(submit)
    /\ WF_vars(round_end)
    /\ \A f \in 1 .. MaxPages + 1 : WF_vars(worker(f)) /\ WF_vars(completed(f))

FairSpec == Init /\ [][Next]_vars /\ Fairness

\* ------------------------------------------------- analyze on its own
\* analyze applied to result mappings of the three shapes crawl stores:
\* {'error'}, {'http'} and {'http': 200, 'onpage'}.
Letters == <<"a", "b", "c", "d", "e", "f", "g", "h", "i", "j">>

\* The k-th of a list of distinct words, none a stopword: qaa, qab, ...
Word(k) == "q" \o Letters[((k - 1) \div 10) + 1] \o Letters[((k - 1) % 10) + 1]

\* How many distinct words the long page has next to its own two.
LexiconSize == 85

\* A page of many distinct words, each three times, then "shoes" twice and
\* "running" once.
Lexicon == [k \in 1 .. LexiconSize |-> Times(Word(k), 3)]
               \o <<Times("Shoes", 2), Times("running", 1)>>

Bodies == {<<Times("shoes", 250)>>,
           <<Times("shoes", 299)>>,
           <<Times("Running", 100), Times("shoes", 200), Times("2024", 50)>>,
           <<Times("running", 100), Times("shoes", 1), Times("the", 200)>>,
           Lexicon}

HomeDocs == {Doc(<<Abs(PA), Abs(PB), Abs(ExtX)>>, t, m, h, <<Img("logo.png", "")>>, b) :
                t \in {<<>>, <<"Home">>},
                m \in {<<>>, <<"Best", Space, "shoes">>},
                h \in {<<>>, << <<"Running", Space, "Shoes">>, <<"Home">> >>},
                b \in Bodies}

\* What results may hold for PA: nothing, a failure, or a page.  One page
\* has the title "Home", one "Home " with the space kept, one an onpage
\* without most keys.
RecordsA ==
    {[error |-> "timed out"], [http |-> 404], [http |-> NoStatus],
     [http |-> 200, onpage |-> extract_onpage(PA,
         Doc(<<Abs(Home), Abs(PB)>>, <<"Home">>, <<"Best", Space, "shoes">>,
             << <<"Running", Space, "Shoes">> >>, <<>>, <<Times("trail", 300)>>))],
     [http |-> 200, onpage |->
         [extract_onpage(PA, Doc(<<Abs(PB)>>, <<>>, <<>>, <<>>, <<Img("a.png", "A")>>,
                                 <<Times("trail", 301)>>))
             EXCEPT !.title = <<"Home", Space>>,
                    !.meta_description = <<"Best", Space, "shoes", Space>>]],
     [http |-> 200, onpage |-> [links |-> <<Abs(PB)>>]]}

RecordsB ==
    {[http |-> 500],
     [http |-> 200, onpage |-> extract_onpage(PB,
         Doc(<<Abs(PA)>>, <<Space, "Home">>, <<"Best", Space, "shoes">>, <<>>, <<>>,
             <<Times("running", 10)>>))],
     [http |-> 200, onpage |-> extract_onpage(PB,
         Doc(<<Abs(PA), Abs(Home)>>, <<>>, <<"Shoes">>, << <<"Shoes">> >>,
             <<Img("b.png", "")>>, <<Times("running", 300), Times("and", 1)>>))]}

Mappings ==
    {[u \in {Home} \cup A \cup B |->
         IF u = Home THEN [http |-> 200, onpage |-> extract_onpage(Home, hd)]
         ELSE IF u = PA THEN ra ELSE rb] :
       hd \in HomeDocs, ra \in RecordsA, rb \in RecordsB,
       A \in {{}, {PA}}, B \in {{}, {PB}}}

\* Every order the keys of a mapping may have in the dict.
Orders(S) == {o \in UNION {[1 .. n -> S] : n \in {Cardinality(S)}} :
                 \A j, k \in DOMAIN o : j # k => o[j] # o[k]}

AnalyzeInit ==
    /\ results \in Mappings
    /\ inserted \in Orders(DOMAIN results)
    /\ site = [u \in Web |-> Serve200(Document(u, <<>>))]
    /\ args = [url |-> Home, depth |-> 0, max_pages |-> 1]
    /\ pc = "return"
    /\ start_url = Home
    /\ to_visit = <<>>
    /\ visited = DOMAIN results
    /\ pages_crawled = Cardinality(DOMAIN results)
    /\ d = 0
    /\ next_round = <<>>
    /\ futures = <<>>
    /\ i = 1
    /\ submitted = <<>>
    /\ stored = [u \in Web |-> IF u \in DOMAIN results THEN 1 ELSE 0]
    /\ summary = NoSummary

AnalyzeNext == analyze_results

AnalyzeSpec == AnalyzeInit /\ [][AnalyzeNext]_vars

\* ================================================================ claims
Returned == pc \in {"return", "done"}

ValidArgs == args.depth >= 0 /\ args.max_pages >= 1

Dispatched == {submitted[j].url : j \in 1 .. Len(submitted)}

Keys == DOMAIN results

\* The same-site addresses the anchors of a recorded page lead to.
LinkTargets(u) ==
    IF "onpage" \in DOMAIN results[u]
    THEN {t \in {norm_url(u, results[u].onpage.links[k].href) :
                   k \in 1 .. Len(results[u].onpage.links)} :
            t # NoneUrl /\ t # ValueError /\ is_same_domain(start_url, t)}
    ELSE {}

\* An address was discovered on a recorded page and never fetched.
SomeLinkNotFetched == \E u \in Keys : \E t \in LinkTargets(u) : t \notin Keys

\* C1: page-budget ceiling.  With depth >= 0 and max_pages >= 1, in every
\* state the count of dispatched fetches, the number of ex.submit calls and
\* the number of keys of results are at most max_pages.
C1_PageBudget ==
    ValidArgs =>
        /\ pages_crawled <= args.max_pages
        /\ Len(submitted) <= args.max_pages
        /\ Cardinality(Keys) <= args.max_pages

\* The crawl returned with the budget used up while a discovered address
\* was left unfetched.
C1_Witness ==
    /\ pc = "done" /\ ValidArgs /\ args.max_pages >= 2
    /\ Cardinality(Keys) = args.max_pages
    /\ SomeLinkNotFetched

\* C2: at-most-once fetch.  No address is passed to ex.submit twice during
\* a crawl, and every address that has a future is already in visited.
C2_AtMostOnce ==
    /\ \A j, k \in 1 .. Len(submitted) :
          submitted[j].url = submitted[k].url => j = k
    /\ \A f \in 1 .. Len(futures) : futures[f].url \in visited
    /\ Dispatched \subseteq visited

\* Two pages fetched in the same round both link to an address that is
\* fetched (once) in the next round, and a fetched page links back to the seed.
C2_Witness ==
    /\ pc = "done"
    /\ \E j, k \in 1 .. Len(submitted) :
          /\ j # k /\ submitted[j].round = submitted[k].round
          /\ submitted[j].url \in Keys /\ submitted[k].url \in Keys
          /\ \E t \in LinkTargets(submitted[j].url) \cap LinkTargets(submitted[k].url) :
                \E m \in 1 .. Len(submitted) :
                    submitted[m].url = t /\ submitted[m].round = submitted[j].round + 1
    /\ \E u \in Keys \ {start_url} : start_url \in LinkTargets(u)

\* The addresses within k links of the seed, following the same-site links
\* of recorded status-200 pages.
RECURSIVE Within(_)
Within(k) ==
    IF k <= 0 THEN {start_url}
    ELSE Within(k - 1) \cup
         UNION {LinkTargets(u) : u \in Within(k - 1) \cap Keys}

\* C3: depth bound.  Every key of the returned mapping is within depth
\* links of the seed, each link taken from a recorded status-200 page; with
\* depth 0 the only possible key is the seed.
C3_DepthBound ==
    Returned =>
        /\ Keys \subseteq Within(args.depth)
        /\ args.depth <= 0 => Keys \subseteq {start_url}

\* A crawl returned because the depth ran out: an address that lies
\* exactly depth + 1 links from the seed stayed out although budget was left.
C3_Witness ==
    /\ pc = "done" /\ args.depth >= 0
    /\ pages_crawled < args.max_pages
    /\ \E t \in Within(args.depth + 1) : t \notin Keys
    /\ (Keys \ Within(args.depth - 1)) # {}

\* C4: round barrier.  Whenever an address of a later round has been
\* dispatched, every address dispatched in an earlier round has its outcome
\* recorded in results.
C4_RoundBarrier ==
    \A j, k \in 1 .. Len(submitted) :
        submitted[j].round < submitted[k].round => submitted[j].url \in Keys

\* A round of several fetches was followed by a dispatch of the next round.
C4_Witness ==
    \E j, k, m \in 1 .. Len(submitted) :
        /\ j # k /\ submitted[j].round = submitted[k].round
        /\ submitted[m].round = submitted[j].round + 1
        /\ pc = "submit"

IsErrorRecord(r) == DOMAIN r = {"error"}
IsHttpRecord(r)  == DOMAIN r = {"http"} /\ r.http # 200
IsPageRecord(r)  == DOMAIN r = {"http", "onpage"} /\ r.http = 200

\* C5: visited/result agreement.  In every state the keys of results are
\* dispatched addresses and no address queued for the next round is a key;
\* when crawl has returned the keys are exactly the visited set, each key
\* was assigned once, and its record is an error record, a non-200 record
\* or a 200 record with the page.
C5_VisitedResults ==
    /\ Keys \subseteq Dispatched
    /\ \A j \in 1 .. Len(next_round) : pc = "as_completed" => next_round[j] \notin Keys
    /\ Returned =>
          /\ Keys = visited
          /\ \A u \in Keys :
                /\ stored[u] = 1
                /\ IsErrorRecord(results[u]) \/ IsHttpRecord(results[u])
                     \/ IsPageRecord(results[u])

\* A returned mapping that holds a transport error and a page, with an
\* address that was discovered and not fetched.
C5_Witness ==
    /\ pc = "done"
    /\ \E u \in Keys : IsErrorRecord(results[u])
    /\ \E u \in Keys : IsPageRecord(results[u])
    /\ SomeLinkNotFetched


IsFailureRecord(r) == IsErrorRecord(r) \/ IsHttpRecord(r)

\* C6: failures do not interrupt the crawl.  The step that records a failed
\* fetch leaves the coordinator in the as_completed loop, leaves next_round
\* and every other future as they were; a round ends only with every
\* dispatched address recorded; and crawl returns only when the depth or
\* the budget is used up.
C6_FailuresContained ==
    [][ /\ (\E u \in Keys' \ Keys : IsFailureRecord(results'[u])) =>
              /\ pc' = pc /\ pc = "as_completed"
              /\ next_round' = next_round
              /\ Len(futures') = Len(futures)
              /\ \A f \in 1 .. Len(futures) :
                    \/ futures'[f] = futures[f]
                    \/ /\ futures[f].url \in Keys' \ Keys
                       /\ futures[f].state = "finished"
                       /\ futures'[f].state = "yielded"
        /\ pc' \in {"for_d", "return", "done"} => Dispatched' \subseteq Keys'
        /\ pc' \in {"return", "done"} =>
              d' > args.depth \/ pages_crawled' >= args.max_pages
      ]_vars

\* A fetch failed in a round in which another fetch gave a page, and an
\* address of the following round was fetched and recorded.
C6_Witness ==
    /\ pc = "done"
    /\ \E j, k, m \in 1 .. Len(submitted) :
          /\ j # k /\ submitted[j].round = submitted[k].round
          /\ IsFailureRecord(results[submitted[j].url])
          /\ IsPageRecord(results[submitted[k].url])
          /\ submitted[m].round = submitted[j].round + 1
          /\ submitted[m].url \in Keys

\* crawl with the fetches of every round yielded in the order of their
\* dispatch: lines 171-178, 180-207 and 165-208.
RECURSIVE ref_submit(_, _, _, _, _)
ref_submit(tv, k, vis, batch, crawled) ==
    IF k > Len(tv) \/ crawled >= args.max_pages
    THEN [visited |-> vis, batch |-> batch, crawled |-> crawled]
    ELSE IF tv[k] \in vis THEN ref_submit(tv, k + 1, vis, batch, crawled)
    ELSE ref_submit(tv, k + 1, vis \cup {tv[k]}, Append(batch, tv[k]), crawled + 1)

RECURSIVE ref_collect(_, _, _, _, _)
ref_collect(batch, k, nr, vis, crawled) ==
    IF k > Len(batch) THEN [raised |-> FALSE, next_round |-> nr]
    ELSE LET rec == outcome(batch[k], fetch(batch[k]))
             out == IF "onpage" \in DOMAIN rec
                    THEN collect_links(nr, rec.onpage.links, 1, batch[k], start_url,
                                       vis, crawled, args.max_pages)
                    ELSE [raised |-> FALSE, next_round |-> nr]
         IN  IF out.raised THEN out
             ELSE ref_collect(batch, k + 1, out.next_round, vis, crawled)

RECURSIVE ref_crawl(_, _, _, _, _)
ref_crawl(tv, vis, keys, crawled, dd) ==
    IF dd > args.depth \/ crawled >= args.max_pages
    THEN [raised |-> FALSE, keys |-> keys]
    ELSE LET s == ref_submit(tv, 1, vis, <<>>, crawled)
             c == ref_collect(s.batch, 1, <<>>, s.visited, s.crawled)
         IN  IF c.raised THEN [raised |-> TRUE, keys |-> keys]
             ELSE ref_crawl(c.next_round, s.visited, s.visited, s.crawled, dd + 1)

InOrder == ref_crawl(<<start_url>>, {}, {}, 0, 0)

\* C7: independence from completion order.  The key set of the returned
\* mapping is the one every completion order gives, in particular the order
\* of dispatch.
C7_OrderIndependent ==
    Returned => ~InOrder.raised /\ Keys = InOrder.keys

\* C8: termination.  Under fair scheduling crawl eventually returns; it
\* begins at most depth + 1 rounds and has futures only for dispatched
\* addresses.
C8_Termination ==
    /\ <>Returned
    /\ [](/\ d <= args.depth + 1
          /\ \A j \in 1 .. Len(submitted) : submitted[j].round <= args.depth
          /\ \A f \in 1 .. Len(futures) : futures[f].url \in Dispatched)

\* The same-site addresses the document served at p links to.
SiteTargets(p) ==
    IF site[p].raises \/ site[p].status_code # 200 THEN {}
    ELSE {t \in {norm_url(p, site[p].html.anchors[k].href) :
                   k \in 1 .. Len(site[p].html.anchors)} :
            t # NoneUrl /\ t # ValueError /\ is_same_domain(start_url, t)}

OnlyFromSeed(b) == \A p \in Pages \ {start_url} : b \notin SiteTargets(p)

SeedIsPage == start_url \in Keys /\ IsPageRecord(results[start_url])

\* The distinct same-site addresses other than the seed that the first k
\* anchors of the seed page lead to.
SeedTargetsUpTo(k) ==
    {t \in {norm_url(start_url, results[start_url].onpage.links[j].href) : j \in 1 .. k} :
        t # NoneUrl /\ t # ValueError /\ t # start_url /\ is_same_domain(start_url, t)}

\* b is among the first n distinct such addresses, in anchor order.
AmongFirst(b, n) ==
    \E k \in 1 .. Len(results[start_url].onpage.links) :
        /\ norm_url(start_url, results[start_url].onpage.links[k].href) = b
        /\ Cardinality(SeedTargetsUpTo(k)) <= n

\* C9 as stated: with depth >= 1 and max_pages >= 1, every address linked
\* from the status-200 seed page, and from no other page, is a key of the
\* returned mapping.
C9_Depth1Discovery ==
    (Returned /\ args.depth >= 1 /\ args.max_pages >= 1 /\ SeedIsPage) =>
        \A b \in LinkTargets(start_url) : OnlyFromSeed(b) => b \in Keys

\* C9, amended: the same for the addresses that are among the first
\* max_pages - 1 distinct same-site addresses, other than the seed, that
\* the anchors of the seed page lead to.
C9_Depth1DiscoveryInBudget ==
    (Returned /\ args.depth >= 1 /\ args.max_pages >= 1 /\ SeedIsPage) =>
        \A b \in LinkTargets(start_url) :
            (OnlyFromSeed(b) /\ AmongFirst(b, args.max_pages - 1)) => b \in Keys

\* The seed page links to two addresses found nowhere else; the budget
\* admits the second of them and it was fetched.
C9_Witness ==
    /\ pc = "done" /\ args.depth >= 1 /\ SeedIsPage
    /\ \E b \in LinkTargets(start_url) :
          /\ b # start_url /\ OnlyFromSeed(b)
          /\ AmongFirst(b, args.max_pages - 1) /\ ~AmongFirst(b, 1)
          /\ b \in Keys

\* The addresses the anchors of a recorded page lead to.
AnchorTargets(a) ==
    {t \in {norm_url(a, results[a].onpage.links[k].href) :
              k \in 1 .. Len(results[a].onpage.links)} : t # NoneUrl /\ t # ValueError}

BrokenEntries(a) ==
    IF a \in DOMAIN summary.broken_links
    THEN {summary.broken_links[a][j] : j \in 1 .. Len(summary.broken_links[a])}
    ELSE {}

\* C10: broken internal links.  In the report of a returned mapping, a
\* status-200 page a has the entry {href: b, http: s} exactly when an anchor
\* of a normalizes to b, b is same-site with a, and b is a key whose record
\* is an HTTP status s other than 200; pages without such a target have no
\* broken_links key.
C10_BrokenLinks ==
    pc = "done" =>
        /\ \A a \in Keys :
              IsPageRecord(results[a]) =>
                 BrokenEntries(a) =
                    {[href |-> b, http |-> results[b].http] :
                       b \in {t \in AnchorTargets(a) \cap Keys :
                                /\ is_same_domain(a, t)
                                /\ IsHttpRecord(results[t])
                                /\ results[t].http # NoStatus}}
        /\ \A a \in DOMAIN summary.broken_links :
              a \in Keys /\ IsPageRecord(results[a]) /\ BrokenEntries(a) # {}

\* A report with a broken link on a page that also links off the site,
\* for a crawl that left a discovered address unfetched.
C10_Witness ==
    /\ pc = "done"
    /\ \E a \in DOMAIN summary.broken_links :
          /\ \E t \in AnchorTargets(a) : ~is_same_domain(a, t)
          /\ \E e \in BrokenEntries(a) : e.http = 404
    /\ SomeLinkNotFetched


ConfigInvalid == args.depth < 0 \/ args.max_pages <= 0

\* C16: configuration errors are fatal and early.  A run with a negative
\* depth or a page count of zero or less dispatches no fetch and never
\* reaches the analysis.
C16_ConfigErrorsFatal ==
    ConfigInvalid => (Len(submitted) = 0 /\ pc # "done")

FetchFails(u) == site[u].raises \/ site[u].status_code # 200

\* C17: failed pages consume budget and yield no links.  The step that
\* records a failed address stores one failure record and leaves next_round
\* and pages_crawled as they were; next_round grows only in a step that
\* records a status-200 page; and when a round has ended every recorded
\* address, failed or not, has taken one unit of pages_crawled.
C17_FailedPagesCostBudget ==
    [][ /\ \A u \in Keys' \ Keys :
              FetchFails(u) => /\ next_round' = next_round
                               /\ IsFailureRecord(results'[u])
                               /\ stored'[u] = 1
        /\ (pc = "as_completed" /\ next_round' # next_round) =>
              \E u \in Keys' \ Keys : IsPageRecord(results'[u])
        /\ Keys' # Keys => pages_crawled' = pages_crawled
        /\ pc' \in {"for_d", "return", "done"} => pages_crawled' = Cardinality(Keys')
      ]_vars

\* A failed address took the last unit of the budget and a discovered
\* address stayed unfetched.
C17_Witness ==
    /\ pc = "done"
    /\ pages_crawled = args.max_pages
    /\ \E u \in Keys : IsFailureRecord(results[u]) /\ FetchFails(u)
    /\ SomeLinkNotFetched

\* C18: no race on the crawl state.  A step in which a worker finishes its
\* fetch changes none of visited, pages_crawled, next_round and results: it
\* only leaves the value fetch returned in its future; and no key of
\* results is ever assigned twice.
C18_WorkersLeaveCrawlState ==
    [][ /\ \A f \in 1 .. Len(futures) :
              (/\ f <= Len(futures')
               /\ futures[f].state = "pending"
               /\ futures'[f].state = "finished") =>
                  /\ visited' = visited
                  /\ pages_crawled' = pages_crawled
                  /\ next_round' = next_round
                  /\ results' = results
                  /\ futures'[f].res = fetch(futures[f].url)
        /\ \A u \in DOMAIN stored : stored'[u] <= 1
      ]_vars

\* A worker has finished its fetch while the coordinator is still
\* submitting the addresses of the round.
C18_Witness ==
    /\ pc = "submit" /\ i <= Len(to_visit)
    /\ \E f, g \in 1 .. Len(futures) :
          futures[f].state = "finished" /\ futures[g].state = "pending"

\* C19: frontier invariant.  At the head of every round after round 0 the
\* frontier has no repeated address, no visited address, and fits the
\* budget; while it is dispatched no address is skipped, and once it has
\* been dispatched every address of it has a submit of this round.
C19_FrontierInvariant ==
    /\ (pc = "for_d" /\ d >= 1) =>
          /\ \A j, k \in 1 .. Len(to_visit) : to_visit[j] = to_visit[k] => j = k
          /\ \A j \in 1 .. Len(to_visit) : to_visit[j] \notin visited
          /\ Len(to_visit) + pages_crawled <= args.max_pages
    /\ (pc = "submit" /\ d >= 1) => Len(futures) = i - 1
    /\ (pc = "as_completed" /\ d >= 1) =>
          \A j \in 1 .. Len(to_visit) :
              \E m \in 1 .. Len(submitted) :
                  submitted[m] = [url |-> to_visit[j], round |-> d]

\* A frontier of several addresses has been dispatched in a later round.
C19_Witness ==
    /\ pc = "as_completed" /\ d >= 1
    /\ Len(to_visit) >= 2 /\ Len(futures) = Len(to_visit)


\* C20: the two same-site checks agree on the output of crawl.  Every key
\* of the returned mapping is same-site with the seed, and for every
\* status-200 page p of it and every address t its anchors normalize to,
\* the check of analyze, is_same_domain(p, t), equals the check of crawl,
\* is_same_domain(start_url, t).
C20_SameSiteChecksAgree ==
    Returned =>
        /\ \A p \in Keys : is_same_domain(start_url, p)
        /\ \A p \in Keys :
              IsPageRecord(results[p]) =>
                 \A t \in AnchorTargets(p) :
                     is_same_domain(p, t) = is_same_domain(start_url, t)

\* A page on another host of the site was fetched; it links both into the
\* site and off it.
C20_Witness ==
    /\ pc = "done"
    /\ \E p \in Keys :
          /\ p.host # start_url.host /\ IsPageRecord(results[p])
          /\ \E t \in AnchorTargets(p) : ~is_same_domain(p, t)
          /\ \E t \in AnchorTargets(p) : is_same_domain(p, t) /\ t # p

\* ------------------------------------------------------ claims on analyze
Elems(seq) == {seq[j] : j \in 1 .. Len(seq)}

PageKeys == {u \in Keys : IsPageRecord(results[u])}

FailedKeys == {u \in Keys : IsFailureRecord(results[u])}

\* What a page's record says, as analyze reads it.
TitleOf(u) == Get(results[u].onpage, "title", <<>>)
MetaOf(u)  == Get(results[u].onpage, "meta_description", <<>>)
H1sOf(u)   == Get(results[u].onpage, "h1s", <<>>)
WordsOf(u) == Get(results[u].onpage, "word_count", 0)

\* results without its failed entries, and the order of what is left
PagesOnly == [u \in PageKeys |-> results[u]]
PagesOnlyOrder == SelectSeq(inserted, LAMBDA u : u \in PageKeys)

\* C11: failed pages are excluded from the content checks.  In the report
\* of a mapping, no address with an {'error'} or a non-200 {'http'} outcome
\* is in pages_missing_title, pages_missing_meta_description,
\* pages_missing_h1 or thin_pages, nor a key of images_missing_alt or
\* broken_links; the title, description, word and phrase Counters, and what
\* the report derives from them, are those of the mapping without the failed
\* entries; and a failed address with a status is still reported as the
\* broken target of every page that links to it.
C11_FailedPagesExcluded ==
    pc = "done" =>
        /\ \A u \in FailedKeys :
              /\ u \notin Elems(summary.pages_missing_title)
              /\ u \notin Elems(summary.pages_missing_meta_description)
              /\ u \notin Elems(summary.pages_missing_h1)
              /\ u \notin Elems(summary.thin_pages)
              /\ u \notin DOMAIN summary.images_missing_alt
              /\ u \notin DOMAIN summary.broken_links
        /\ checked(results, inserted) = PagesOnlyOrder
        /\ Counter(field_adds(results, checked(results, inserted), 1, "title"))
             = Counter(field_adds(PagesOnly, PagesOnlyOrder, 1, "title"))
        /\ Counter(field_adds(results, checked(results, inserted), 1, "meta_description"))
             = Counter(field_adds(PagesOnly, PagesOnlyOrder, 1, "meta_description"))
        /\ Counter(word_adds(results, checked(results, inserted), 1))
             = Counter(word_adds(PagesOnly, PagesOnlyOrder, 1))
        /\ Counter(phrase_adds(results, inserted, 1))
             = Counter(phrase_adds(PagesOnly, PagesOnlyOrder, 1))
        /\ summary.duplicate_titles = analyze(PagesOnly, PagesOnlyOrder).duplicate_titles
        /\ summary.duplicate_meta_descriptions
             = analyze(PagesOnly, PagesOnlyOrder).duplicate_meta_descriptions
        /\ summary.top_words = analyze(PagesOnly, PagesOnlyOrder).top_words
        /\ summary.candidate_phrases = analyze(PagesOnly, PagesOnlyOrder).candidate_phrases
        /\ \A p \in PageKeys : \A t \in AnchorTargets(p) \cap FailedKeys :
              (is_same_domain(p, t) /\ GetHttp(results[t]) # NoStatus) =>
                  [href |-> t, http |-> results[t].http] \in BrokenEntries(p)

\* The report of a mapping with a transport error, a non-200 answer that a
\* page links to, and pages with words, phrases and a repeated title.
C11_Witness ==
    /\ pc = "done"
    /\ \E u \in Keys : IsErrorRecord(results[u])
    /\ \E t \in Keys, p \in PageKeys :
          /\ IsHttpRecord(results[t]) /\ results[t].http # NoStatus
          /\ [href |-> t, http |-> results[t].http] \in BrokenEntries(p)
    /\ summary.top_words # <<>>
    /\ summary.candidate_phrases # <<>>
    /\ summary.pages_missing_meta_description # <<>>
    /\ summary.thin_pages # <<>>

\* C12: no address is dropped from the report.  total_pages is the number of
\* keys of results; the keys of per_page are the keys of results; the entry
\* of an {'error'} outcome is that error, the entry of a non-200 outcome is
\* that status.
C12_NoAddressDropped ==
    pc = "done" =>
        /\ summary.total_pages = Cardinality(Keys)
        /\ DOMAIN summary.per_page = Keys
        /\ \A u \in Keys :
              /\ IsErrorRecord(results[u]) => summary.per_page[u] = [error |-> results[u].error]
              /\ IsHttpRecord(results[u]) => summary.per_page[u] = [http |-> results[u].http]
              /\ IsPageRecord(results[u]) => /\ "word_count" \in DOMAIN summary.per_page[u]
                                             /\ summary.per_page[u].title = TitleOf(u)

C12_Witness ==
    /\ pc = "done"
    /\ summary.total_pages = 3
    /\ \E u, v, w \in Keys :
          /\ IsErrorRecord(results[u]) /\ summary.per_page[u] = [error |-> "timed out"]
          /\ IsHttpRecord(results[v]) /\ summary.per_page[v] = [http |-> 500]
          /\ IsPageRecord(results[w])

\* C13: missing fields and thin pages.  A status-200 page is in
\* pages_missing_title iff its title is empty, in
\* pages_missing_meta_description iff its description is empty, in
\* pages_missing_h1 iff it has no h1, in thin_pages iff its word count is
\* below 300: 299 is thin, 300 and 301 are not.  Each list is decided by its
\* own field alone.
C13_MissingAndThin ==
    pc = "done" =>
        \A u \in PageKeys :
            /\ u \in Elems(summary.pages_missing_title) <=> TitleOf(u) = <<>>
            /\ u \in Elems(summary.pages_missing_meta_description) <=> MetaOf(u) = <<>>
            /\ u \in Elems(summary.pages_missing_h1) <=> H1sOf(u) = <<>>
            /\ u \in Elems(summary.thin_pages) <=> WordsOf(u) < 300
            /\ WordsOf(u) = 299 => u \in Elems(summary.thin_pages)
            /\ WordsOf(u) \in {300, 301} => u \notin Elems(summary.thin_pages)

\* A report with a page of 299 words that is thin and lacks only its
\* description, a page of 300 words that is not thin, and a page of 301
\* words that is not thin and lacks only its title.
C13_Witness ==
    /\ pc = "done"
    /\ \E u, v, w \in PageKeys :
             /\ WordsOf(u) = 299 /\ u \in Elems(summary.thin_pages)
             /\ u \notin Elems(summary.pages_missing_title)
             /\ u \in Elems(summary.pages_missing_meta_description)
             /\ u \notin Elems(summary.pages_missing_h1)
             /\ WordsOf(v) = 300 /\ v \notin Elems(summary.thin_pages)
             /\ WordsOf(w) = 301 /\ w \notin Elems(summary.thin_pages)
             /\ w \in Elems(summary.pages_missing_title)
             /\ w \notin Elems(summary.pages_missing_meta_description)
             /\ w \notin Elems(summary.pages_missing_h1)
    /\ summary.total_pages = 3

\* C14: duplicate grouping.  duplicate_titles maps t to n exactly when t is
\* not empty and n >= 2 status-200 pages have exactly the title t; a title
\* with a trailing space is a title of its own.  The same for
\* duplicate_meta_descriptions.
C14_DuplicateGrouping ==
    pc = "done" =>
        /\ \A t \in {TitleOf(u) : u \in PageKeys} \cup DOMAIN summary.duplicate_titles :
              LET n == Cardinality({u \in PageKeys : TitleOf(u) = t})
              IN  /\ t \in DOMAIN summary.duplicate_titles <=> (t # <<>> /\ n >= 2)
                  /\ t \in DOMAIN summary.duplicate_titles => summary.duplicate_titles[t] = n
        /\ \A t \in {MetaOf(u) : u \in PageKeys}
                       \cup DOMAIN summary.duplicate_meta_descriptions :
              LET n == Cardinality({u \in PageKeys : MetaOf(u) = t})
              IN  /\ t \in DOMAIN summary.duplicate_meta_descriptions
                        <=> (t # <<>> /\ n >= 2)
                  /\ t \in DOMAIN summary.duplicate_meta_descriptions
                        => summary.duplicate_meta_descriptions[t] = n

\* Two pages titled "Home" and a third titled "Home " with the space.
C14_Witness ==
    /\ pc = "done"
    /\ DOMAIN summary.duplicate_titles = {<<"Home">>}
    /\ summary.duplicate_titles[<<"Home">>] = 2
    /\ \E u \in PageKeys : TitleOf(u) = <<"Home", Space>>
    /\ Cardinality(PageKeys) = 3

\* C15: phrase scoring.  For every reported candidate phrase, overlap is the
\* number of its words among the 120 most frequent unigrams off the stopword
\* list, score is count + overlap, and the candidates stand by descending
\* score, then descending count.
C15_PhraseScoring ==
    pc = "done" =>
        LET most   == most_common(Counter(word_adds(results, checked(results, inserted), 1)),
                                  120)
            top120 == {most[j].key : j \in 1 .. Len(most)}
            cand   == summary.candidate_phrases
        IN  /\ \A j \in 1 .. Len(cand) :
                  /\ cand[j].overlap_with_top_unigrams
                       = Len(SelectSeq(split(cand[j].phrase), LAMBDA w : w \in top120))
                  /\ cand[j].score = cand[j].count + cand[j].overlap_with_top_unigrams
            /\ \A j, k \in 1 .. Len(cand) :
                  j < k => \/ cand[j].score > cand[k].score
                           \/ cand[j].score = cand[k].score /\ cand[j].count >= cand[k].count

====
